---- MODULE Spec2Model ----
(***************************************************************************)
(* A model of json_map.py: the Tiled JSON map renderer (Map, TileLayer,    *)
(* ObjectGroup, Tileset) and its viewport-driven sprite pools.             *)
(*                                                                         *)
(* Positions and sizes range over integers.  A Sprite is a record carrying *)
(* an `id` (its identity: no two sprites that exist at one time share it), *)
(* a texture token and its position; Python's None is the record None with *)
(* the id <<>>.  The pyglet batch is the set `live` of the ids of the      *)
(* sprites created and not deleted.  On these integers int(v) is v.        *)
(***************************************************************************)
EXTENDS Integers, Sequences, FiniteSets, TLC

VARIABLES
    mapdata,        \* Map.data: width, height, tilewidth, tileheight
    tilesets,       \* Map.tilesets, in insertion order
    texture_index,  \* Map.texture_index: gid -> texture
    layers,         \* Map.layers: sequence of layer records
    groups,         \* BaseLayer.groups, the class-level counter
    sprites,        \* layer index -> that layer's `sprites` dict
    live,           \* ids of the sprites alive in the batch
    deleted_twice,  \* some sprite had delete() called on it a second time
    map_x, map_y, map_w, map_h,   \* Map.x, Map.y, Map.w, Map.h
    map_fx, map_fy, \* Map.fx, Map.fy (<<>> is None)
    last,           \* the last operation and its arguments
    effect,         \* what the last set_viewport called on a layer did
    ret,            \* what the last lookup returned
    renderer,       \* the MapRenderer: its tables and its spatial hash
    game,           \* the Game: paused
    player,         \* the Player: position, speeds, movement_keys
    keys_down,      \* the keys of the keyboard that are held down
    queries         \* the collision_tile_at calls of the last on_update

vars == <<mapdata, tilesets, texture_index, layers, groups, sprites, live,
          deleted_twice, map_x, map_y, map_w, map_h, map_fx, map_fy, last,
          effect, ret, renderer, game, player, keys_down, queries>>

(***************************************************************************)
(* Bounds of the model.                                                    *)
(***************************************************************************)
\* sprites alive in the batch at one time
MaxSprites == 4
\* requested x range over -XLow .. XHigh, requested w over 0 .. MaxW
XLow == 1
XHigh == 2
MaxW == 2

\* atlas images are 1 .. MaxImage pixels wide and high
MaxImage == 6
\* gids looked up range over 0 .. MaxGid
MaxGid == 16
\* calculate_columns: tile sizes 1 .. MaxTile, spacings 0 .. MaxSpacing
MaxTile == 3
MaxSpacing == 2
\* a map description has up to MaxLayers layers
MaxLayers == 2
\* BaseLayer.groups counts up to MaxGroups
MaxGroups == 4
\* tile coordinates asked for range over -MaxCoord .. MaxCoord
MaxCoord == 4
\* at most MaxHeld keys are held down at a time, and desired_speed is
\* followed up to MaxDesired in every direction
MaxHeld == 2
MaxDesired == 2

XPositions == (0 - XLow) .. XHigh
Widths == 0 .. MaxW
\* requested y: above the world's top edge and inside a tile row;
\* requested h: empty and two pixels high
YPositions == {0 - 1, 1}
Heights == {0, 2}

(***************************************************************************)
(* Python values.                                                          *)
(***************************************************************************)
None == [id |-> <<>>, texture |-> <<>>, x |-> 0, y |-> 0, group |-> 0 - 1]

Ok(v) == [ok |-> TRUE, value |-> v]
Raise(e) == [ok |-> FALSE, value |-> e]

Max(a, b) == IF a >= b THEN a ELSE b
Min(a, b) == IF a <= b THEN a ELSE b

\* dict.update: the entries of `new` replace those of `old`
Update(old, new) ==
    [k \in (DOMAIN old) \cup (DOMAIN new) |->
        IF k \in DOMAIN new THEN new[k] ELSE old[k]]

Restrict(f, S) == [k \in S |-> f[k]]

EmptyDict == [k \in {} |-> None]

\* the id of a new sprite made by layer li for coordinate c, when the
\* sprites of the ids in `used` exist
FreshId(used, li, c) ==
    LET n == CHOOSE n \in 1 .. (Cardinality(used) + 1) :
                /\ <<li, c[1], c[2], n>> \notin used
                /\ \A m \in 1 .. (n - 1) : <<li, c[1], c[2], m>> \in used
    IN  <<li, c[1], c[2], n>>

(***************************************************************************)
(* calculate_columns and the Tileset.                                      *)
(***************************************************************************)
\* a bug: the assertion is left out
calculate_columnsUnchecked(image_width, tile_width, margin, spacing) ==
    LET iw == image_width - margin * 2
    IN  IF iw < tile_width THEN Ok(0)
        ELSE IF iw = tile_width THEN Ok(1)
        ELSE Ok(((iw - tile_width) \div (tile_width + spacing)) + 1)

calculate_columns(image_width, tile_width, margin, spacing) ==
    LET iw == image_width - margin * 2
        columns == ((iw - tile_width) \div (tile_width + spacing)) + 1
    IN  IF iw < tile_width THEN Ok(0)
        ELSE IF iw = tile_width THEN Ok(1)
        ELSE IF (columns * tile_width) + (spacing * (columns - 1)) = iw
             THEN Ok(columns)
             ELSE Raise("AssertionError")

\* Tileset.__init__: the tileset description plus its derived columns, rows
Tileset(data) ==
    LET c == calculate_columns(data.imagewidth, data.tilewidth,
                               data.margin, data.spacing)
        r == calculate_columns(data.imageheight, data.tileheight,
                               data.margin, data.spacing)
    IN  IF c.ok /\ r.ok
        THEN Ok([data |-> data, columns |-> c.value, rows |-> r.value])
        ELSE Raise("AssertionError")

\* Tileset.__getitem__((row, col)): the texture of the slicer grid cell
TilesetGetItem(ts, row, col) == <<ts.data.name, row, col>>

\* a bug: the texture row is not inverted
TilesetAssignmentsNotInverted(ts) ==
    { <<x + y * ts.columns + ts.data.firstgid, TilesetGetItem(ts, y, x)>> :
        x \in 0 .. (ts.columns - 1), y \in 0 .. (ts.rows - 1) }

\* the assignments the two inner loops of Map.__init__ make for one tileset
TilesetAssignments(ts) ==
    { <<x + y * ts.columns + ts.data.firstgid,
        TilesetGetItem(ts, ts.rows - 1 - y, x)>> :
        x \in 0 .. (ts.columns - 1), y \in 0 .. (ts.rows - 1) }

TilesetIndex(ts) ==
    LET A == TilesetAssignments(ts)
    IN  [g \in { a[1] : a \in A } |-> (CHOOSE a \in A : a[1] = g)[2]]

RECURSIVE BuildTextureIndex(_)
BuildTextureIndex(tss) ==
    IF tss = <<>> THEN [g \in {} |-> <<>>]
    ELSE Update(BuildTextureIndex(SubSeq(tss, 1, Len(tss) - 1)),
                TilesetIndex(tss[Len(tss)]))

\* Map.tileoffset_index, for the tilesets that carry a "tileoffset"
TilesetOffsets(ts) ==
    IF ts.data.tileoffset = <<>> THEN [g \in {} |-> <<>>]
    ELSE [g \in DOMAIN TilesetIndex(ts) |-> ts.data.tileoffset]

RECURSIVE BuildTileoffsetIndex(_)
BuildTileoffsetIndex(tss) ==
    IF tss = <<>> THEN [g \in {} |-> <<>>]
    ELSE Update(BuildTileoffsetIndex(SubSeq(tss, 1, Len(tss) - 1)),
                TilesetOffsets(tss[Len(tss)]))

get_texture(gid) ==
    IF gid \in DOMAIN texture_index
    THEN Ok(texture_index[gid]) ELSE Raise("KeyError")

get_tileoffset(gid) ==
    LET idx == BuildTileoffsetIndex(tilesets)
    IN  IF gid \in DOMAIN idx THEN idx[gid] ELSE <<0, 0>>

(***************************************************************************)
(* TileLayer.                                                              *)
(***************************************************************************)
\* TileLayer.__contains__: the flat index is looked for among the list's
\* elements, as the operator `in` of a Python list does
TileLayerContains(layer, px, py) ==
    LET idx == px + py * mapdata.width
    IN  Ok(\E k \in DOMAIN layer.data : layer.data[k] = idx)

\* TileLayer.__getitem__: a Python list index, negative indices wrap once
TileLayerGetItem(layer, px, py) ==
    LET idx == px + py * mapdata.width
        n == Len(layer.data)
    IN  IF idx >= 0 /\ idx < n THEN Ok(layer.data[idx + 1])
        ELSE IF idx < 0 /\ idx >= 0 - n THEN Ok(layer.data[idx + n + 1])
        ELSE Raise("IndexError")

\* the generator yrange(f, t, s) of TileLayer.set_viewport
RECURSIVE yrange(_, _, _)
yrange(f, t, s) == IF f < t THEN <<f>> \o yrange(f + s, t, s) ELSE <<>>

\* a bug: the loops stop at x+w and y+h, without the extra tile
TileVisitNoOverscan(x, y, w, h) ==
    LET tw == mapdata.tilewidth
        th == mapdata.tileheight
        js == yrange(y, y + h, th)
        is == yrange(x, x + w, tw)
        ni == Len(is)
    IN  [k \in 1 .. (Len(js) * ni) |->
            << is[((k - 1) % ni) + 1] \div tw,
               js[((k - 1) \div ni) + 1] \div th >>]

\* the coordinates the two nested loops visit, in order
TileVisit(x, y, w, h) ==
    LET tw == mapdata.tilewidth
        th == mapdata.tileheight
        js == yrange(y, y + h + th, th)
        is == yrange(x, x + w + tw, tw)
        ni == Len(is)
    IN  [k \in 1 .. (Len(js) * ni) |->
            << is[((k - 1) % ni) + 1] \div tw,
               js[((k - 1) \div ni) + 1] \div th >>]

\* the texture of the tile at a coordinate: self.map.get_texture(self[c])
TileTexture(layer, c) ==
    LET g == TileLayerGetItem(layer, c[1], c[2])
    IN  IF g.ok THEN get_texture(g.value) ELSE g

\* Sprite(texture, x=px*tw, y=h-(py*th)-th, ...) of TileLayer.set_viewport
TileSprite(id, texture, c, h, group) ==
    [id |-> id, texture |-> texture,
     x |-> c[1] * mapdata.tilewidth,
     y |-> h - (c[2] * mapdata.tileheight) - mapdata.tileheight,
     group |-> group]

\* a bug: no key is popped
TileUnusedNone(pool, in_use) == {}

\* the keys TileLayer.set_viewport pops: set(self.sprites) - in_use
TileUnused(pool, in_use) == (DOMAIN pool) \ in_use

\* a bug: the popped sprites are not deleted
TileDeletedNone(pool, unused) == {}

\* the sprites the loop over unused_keys calls delete() on
TileDeleted(pool, unused) ==
    { pool[c].id : c \in { u \in unused : pool[u] # None } }

\* a bug: a coordinate that holds the None placeholder is resolved again
TileAbsentOrNone(pool, c) == c \notin DOMAIN pool \/ pool[c] = None

\* `coordinate not in self.sprites`: the None placeholder is an entry too
TileAbsent(pool, c) == c \notin DOMAIN pool

\* pool: self.sprites before the call;  used: the ids of the sprites there are
TileLayerSetViewport(layer, pool, used, x, y, w, h) ==
    LET visit == TileVisit(x, y, w, h)
        K == DOMAIN visit
        in_use == { visit[k] : k \in K }
        missing == { k \in K : TileAbsent(pool, visit[k]) }
        tex == [k \in missing |-> TileTexture(layer, visit[k])]
        creating == { k \in missing : tex[k].ok }
        idOf(k) == FreshId(used, layer.index, visit[k])
        added == [c \in { visit[k] : k \in missing } |->
                    LET k == CHOOSE k \in missing : visit[k] = c
                    IN  IF k \in creating
                        THEN TileSprite(idOf(k), tex[k].value, c, h, layer.group)
                        ELSE None]
        filled == Update(pool, added)
        unused == TileUnused(filled, in_use)
    IN  [ sprites |-> Restrict(filled, (DOMAIN filled) \ unused),
          created |-> { idOf(k) : k \in creating },
          deleted |-> TileDeleted(filled, unused),
          dropped |-> {},
          lookups |-> Cardinality(missing),
          in_use |-> in_use,
          error |-> "" ]

(***************************************************************************)
(* ObjectGroup.                                                            *)
(***************************************************************************)
\* the sort key of ObjectGroup.__init__: obj["x"] + obj["y"] * map width
ObjectKey(obj, width) == obj.x + obj.y * width

\* list.sort(key=...): a stable sort, here by insertion
RECURSIVE SortObjects(_, _)
SortObjects(objs, width) ==
    IF objs = <<>> THEN <<>>
    ELSE LET n == Len(objs)
             o == objs[n]
             rest == SortObjects(SubSeq(objs, 1, n - 1), width)
             \* o goes after every element whose key is <= its own
             before == { i \in 1 .. Len(rest) :
                            ObjectKey(rest[i], width) <= ObjectKey(o, width) }
             p == Cardinality(before)
         IN  SubSeq(rest, 1, p) \o <<o>> \o SubSeq(rest, p + 1, Len(rest))

\* the elements of objs at the positions I, in their order in objs
RECURSIVE Pick(_, _)
Pick(objs, I) ==
    IF objs = <<>> THEN <<>>
    ELSE LET n == Len(objs)
             rest == Pick(SubSeq(objs, 1, n - 1), I)
         IN  IF n \in I THEN Append(rest, objs[n]) ELSE rest

\* a bug: the index keeps the last object of a name only
ObjectIndexLast(objs, field) ==
    [ v \in { objs[i][field] : i \in DOMAIN objs } |->
        LET all == Pick(objs, { i \in DOMAIN objs : objs[i][field] = v })
        IN  << all[Len(all)] >> ]

\* ObjectGroup._index (field "name") and ObjectGroup._index_type (field
\* "type"): each value of the field refers to the list of the objects that
\* have it, appended in the order of data["objects"].  The field of an
\* object is obj.get(field, "?").
ObjectIndex(objs, field) ==
    [ v \in { objs[i][field] : i \in DOMAIN objs } |->
        Pick(objs, { i \in DOMAIN objs : objs[i][field] = v }) ]

\* the coordinate ObjectGroup.__init__ files an object under
ObjectCoordinate(obj, map) ==
    << obj.x \div map.tilewidth, (obj.y \div map.tileheight) - 1 >>

\* a bug: the coordinate index is built from the sorted list
ObjectXYIndexSorted(objs, map) ==
    LET sorted == SortObjects(objs, map.width)
    IN  [ c \in { ObjectCoordinate(objs[i], map) : i \in DOMAIN objs } |->
            Pick(sorted, { i \in DOMAIN sorted :
                             ObjectCoordinate(sorted[i], map) = c }) ]

\* ObjectGroup._xy_index
ObjectXYIndex(objs, map) ==
    [ c \in { ObjectCoordinate(objs[i], map) : i \in DOMAIN objs } |->
        Pick(objs, { i \in DOMAIN objs :
                       ObjectCoordinate(objs[i], map) = c }) ]

\* the test of ObjectGroup.set_viewport that an object is inside the viewport
ObjectInside(obj, x, y, w, h) ==
    LET tw == mapdata.tilewidth
        th == mapdata.tileheight
    IN  /\ x - tw < obj.x /\ obj.x < x + w + tw
        /\ y - th < obj.y /\ obj.y < y + h + th

\* the objects for which the loop body reaches in_use.add(coordinate)
ObjectDrawn(obj, x, y, w, h) ==
    ObjectInside(obj, x, y, w, h) /\ obj.visible /\ obj.hasgid /\ obj.gid # 0

\* Sprite(texture, x=obj.x+offset[0], y=self.h-obj.y+offset[1], ...)
ObjectSprite(id, texture, obj, h, group) ==
    LET off == get_tileoffset(obj.gid)
    IN  [id |-> id, texture |-> texture,
         x |-> obj.x + off[1], y |-> h - obj.y + off[2], group |-> group]

\* the loop over self.objects: st is [sprites, used, created, dropped, in_use]
RECURSIVE ObjectLoop(_, _, _, _, _, _, _)
ObjectLoop(layer, i, st, x, y, w, h) ==
    IF i > Len(layer.objects) THEN st
    ELSE LET obj == layer.objects[i]
             c == <<obj.x, obj.y>>
             t == get_texture(obj.gid)
             id == FreshId(st.used, layer.index, c)
             sprite == IF t.ok
                       THEN ObjectSprite(id, t.value, obj, h, layer.group)
                       ELSE None
             old == IF c \in DOMAIN st.sprites THEN st.sprites[c] ELSE None
             next == IF ~ObjectDrawn(obj, x, y, w, h) THEN st
                     ELSE [ sprites |-> Update(st.sprites, [k \in {c} |-> sprite]),
                            used |-> IF t.ok THEN st.used \cup {id} ELSE st.used,
                            created |-> IF t.ok THEN st.created \cup {id}
                                        ELSE st.created,
                            dropped |-> IF old # None
                                        THEN st.dropped \cup {old.id}
                                        ELSE st.dropped,
                            lookups |-> st.lookups + 1,
                            in_use |-> st.in_use \cup {c} ]
         IN  ObjectLoop(layer, i + 1, next, x, y, w, h)

\* the loop over unused_keys: pop, then o.delete().  A set is iterated in an
\* order the code does not choose; None.delete() raises AttributeError and
\* ends the loop with the keys popped so far removed.
ObjectEvict(st) ==
    LET unused == (DOMAIN st.sprites) \ st.in_use
        nones == { u \in unused : st.sprites[u] = None }
        done(popped, deleted, err) ==
            [ sprites |-> Restrict(st.sprites, (DOMAIN st.sprites) \ popped),
              created |-> st.created,
              deleted |-> { st.sprites[u].id : u \in deleted },
              dropped |-> st.dropped,
              lookups |-> st.lookups,
              in_use |-> st.in_use,
              error |-> err ]
    IN  IF nones = {} THEN { done(unused, unused, "") }
        ELSE { done(S \cup {n}, S, "AttributeError") :
                 S \in SUBSET (unused \ nones), n \in nones }

\* ObjectGroup.set_viewport: the set of its possible outcomes
ObjectGroupSetViewport(layer, pool, used, x, y, w, h) ==
    ObjectEvict(ObjectLoop(layer, 1,
        [ sprites |-> pool, used |-> used, created |-> {},
          dropped |-> {}, lookups |-> 0, in_use |-> {} ], x, y, w, h))

\* layer.set_viewport(x, y, w, h), dispatched on the layer's class
LayerSetViewport(layer, pool, used, x, y, w, h) ==
    IF layer.type = "tilelayer"
    THEN { TileLayerSetViewport(layer, pool, used, x, y, w, h) }
    ELSE ObjectGroupSetViewport(layer, pool, used, x, y, w, h)

(***************************************************************************)
(* Map construction.                                                       *)
(***************************************************************************)
\* BaseLayer.__init__ and ObjectGroup.__init__: a layer description becomes
\* a layer; a visible layer takes the group number g
NewLayer(desc, map, g, index) ==
    [ index |-> index, name |-> desc.name, type |-> desc.type, visible |-> desc.visible,
      data |-> desc.data,
      data_objects |-> desc.objects,
      objects |-> IF desc.type = "objectgroup"
                  THEN SortObjects(desc.objects, map.width) ELSE desc.objects,
      _index |-> ObjectIndex(desc.objects, "name"),
      _index_type |-> ObjectIndex(desc.objects, "type"),
      _xy_index |-> ObjectXYIndex(desc.objects, map),
      group |-> IF desc.visible THEN g ELSE 0 - 1 ]

\* the loop over data["layers"] of Map.__init__, from counter value g
RECURSIVE BuildLayers(_, _, _)
BuildLayers(descs, map, g) ==
    IF descs = <<>> THEN Ok([layers |-> <<>>, groups |-> g])
    ELSE LET n == Len(descs)
             d == descs[n]
             before == BuildLayers(SubSeq(descs, 1, n - 1), map, g)
         IN  IF ~before.ok THEN before
             ELSE IF d.type \notin {"tilelayer", "objectgroup"}
                  THEN Raise("ValueError")
                  ELSE Ok([ layers |-> Append(before.value.layers,
                                NewLayer(d, map, before.value.groups, n)),
                            groups |-> IF d.visible
                                       THEN before.value.groups + 1
                                       ELSE before.value.groups ])

\* the loop over data["tilesets"] of Map.__init__
RECURSIVE BuildTilesets(_)
BuildTilesets(descs) ==
    IF descs = <<>> THEN Ok(<<>>)
    ELSE LET n == Len(descs)
             before == BuildTilesets(SubSeq(descs, 1, n - 1))
             ts == Tileset(descs[n])
         IN  IF ~before.ok THEN before
             ELSE IF ~ts.ok THEN ts
             ELSE Ok(Append(before.value, ts.value))

\* Map.p_width, Map.p_height
p_width == mapdata.width * mapdata.tilewidth
p_height == mapdata.height * mapdata.tileheight

\* last: the operation, its arguments (key: a name or type asked for),
\* whether it returned early, the
\* layers whose set_viewport it called, the exception it ended with
NoOp == [ op |-> "init", layer |-> 0, x |-> 0, y |-> 0, w |-> 0, h |-> 0,
          key |-> "", force |-> FALSE, noop |-> FALSE, calls |-> <<>>,
          error |-> "" ]

\* effect: the sprites created, deleted and overwritten, the textures looked
\* up, the set in_use; repeat: the call before had the same arguments
NoEffect == [ repeat |-> FALSE, created |-> {}, deleted |-> {},
              dropped |-> {}, lookups |-> 0, in_use |-> {} ]

\* Map.tilelayers, Map.objectgroups: a name refers to the last layer of the
\* type that was stored under it (the position of that layer in Map.layers)
LayerDict(type) ==
    LET I == { i \in DOMAIN layers : layers[i].type = type }
    IN  [ n \in { layers[i].name : i \in I } |->
            CHOOSE i \in I : /\ layers[i].name = n
                            /\ \A j \in I : layers[j].name = n => j <= i ]

tilelayers == LayerDict("tilelayer")
objectgroups == LayerDict("objectgroup")

\* a bug: the number of this Map's visible layers is used, not the counter
last_groupOfThisMap ==
    Cardinality({ i \in DOMAIN layers : layers[i].visible }) - 1

\* Map.last_group
last_group == groups - 1

\* a MapRenderer before its first load: MapRenderer.__init__ has set
\* shadow_casters = {} and nothing else
NoRenderer ==
    [ width |-> 0, height |-> 0, tiles |-> EmptyDict,
      collision_gids |-> {}, collision_tiles |-> EmptyDict,
      sprites |-> EmptyDict, shadow_casters |-> EmptyDict ]

\* Game.__init__: the game is not paused
NewGame == [ paused |-> FALSE ]

\* no Player has been constructed
NoPlayer ==
    [ position |-> <<0, 0>>, desired_speed |-> <<0, 0>>,
      normalized_desired_speed |-> <<0, 0>>, speed |-> <<0, 0>>,
      movement_keys |-> {} ]

\* the state Map.__init__ leaves for the description desc when
\* BaseLayer.groups is g before it
MapFields(desc, g) ==
    LET tss == BuildTilesets(desc.tilesets)
        ls == BuildLayers(desc.layers, desc, g)
    IN  /\ tss.ok /\ ls.ok
        /\ mapdata = [ width |-> desc.width, height |-> desc.height,
                       tilewidth |-> desc.tilewidth,
                       tileheight |-> desc.tileheight ]
        /\ tilesets = tss.value
        /\ texture_index = BuildTextureIndex(tss.value)
        /\ layers = ls.value.layers
        /\ groups = ls.value.groups
        /\ sprites = [i \in 1 .. Len(ls.value.layers) |-> EmptyDict]
        /\ live = {}
        /\ deleted_twice = FALSE
        /\ map_x = 0 /\ map_y = 0 /\ map_w = 0 /\ map_h = 0
        /\ map_fx = <<>> /\ map_fy = <<>>
        /\ last = NoOp
        /\ effect = NoEffect
        /\ ret = Ok(<<>>)

\* a program with that Map, no MapRenderer and no Player
MapInitFrom(desc, g) ==
    /\ MapFields(desc, g)
    /\ renderer = NoRenderer
    /\ game = NewGame
    /\ player = NoPlayer
    /\ keys_down = {}
    /\ queries = <<>>

\* the state Map.__init__ leaves for the description desc in a fresh program
MapInit(desc) == MapInitFrom(desc, 0)

(***************************************************************************)
(* The batch: what a call's creations and deletions do to it.              *)
(***************************************************************************)
\* the ids of the sprites the pools refer to
Pooled(pools) ==
    UNION { { pools[i][c].id : c \in DOMAIN pools[i] } : i \in DOMAIN pools }
        \ {None.id}

\* the ids of the sprites there are: those alive and those referred to
Used == live \cup Pooled(sprites)

\* the batch holds at most MaxSprites sprites
Affordable(r) == Cardinality(live \cup r.created) <= MaxSprites

\* Sprite(...) adds a sprite to the batch, Sprite.delete() removes it
Batch(r) ==
    /\ live' = (live \cup r.created) \ r.deleted
    /\ deleted_twice' =
          (deleted_twice \/ ~(r.deleted \subseteq (live \cup r.created)))

(***************************************************************************)
(* Calls of set_viewport on one layer.                                     *)
(***************************************************************************)
LayerCall(name, li, x, y, w, h) ==
    \E r \in LayerSetViewport(layers[li], sprites[li], Used, x, y, w, h) :
        /\ Affordable(r)
        /\ sprites' = [sprites EXCEPT ![li] = r.sprites]
        /\ Batch(r)
        /\ last' = [ op |-> name, layer |-> li,
                     x |-> x, y |-> y, w |-> w, h |-> h, key |-> "",
                     force |-> FALSE, noop |-> FALSE, calls |-> <<li>>,
                     error |-> r.error ]
        /\ effect' = [ repeat |-> /\ last.op = name /\ last.layer = li
                                  /\ last.error = ""
                                  /\ <<last.x, last.y, last.w, last.h>>
                                        = <<x, y, w, h>>,
                       created |-> r.created, deleted |-> r.deleted,
                       dropped |-> r.dropped, lookups |-> r.lookups,
                       in_use |-> r.in_use ]
        /\ UNCHANGED <<renderer, game, player, keys_down, queries>>
        /\ UNCHANGED <<mapdata, tilesets, texture_index, layers, groups,
                       map_x, map_y, map_w, map_h, map_fx, map_fy, ret>>

TileSetViewport ==
    \E li \in DOMAIN layers, x \in XPositions, y \in YPositions,
       w \in Widths, h \in Heights :
        /\ layers[li].type = "tilelayer" /\ layers[li].visible
        /\ LayerCall("TileLayer.set_viewport", li, x, y, w, h)

ObjectSetViewport ==
    \E li \in DOMAIN layers, x \in XPositions, y \in YPositions,
       w \in Widths, h \in Heights :
        /\ layers[li].type = "objectgroup" /\ layers[li].visible
        /\ LayerCall("ObjectGroup.set_viewport", li, x, y, w, h)

(***************************************************************************)
(* Map: viewport and focus.                                                *)
(***************************************************************************)
\* the loop `for layer in self.layers` of Map.set_viewport, from layer i on;
\* an exception of a layer ends it
RECURSIVE RunLayers(_, _, _, _, _, _)
RunLayers(i, st, x, y, w, h) ==
    IF i > Len(layers) \/ st.error # "" THEN {st}
    ELSE IF ~layers[i].visible THEN RunLayers(i + 1, st, x, y, w, h)
    ELSE UNION {
            RunLayers(i + 1,
                [ sprites |-> [st.sprites EXCEPT ![i] = r.sprites],
                  created |-> st.created \cup r.created,
                  deleted |-> st.deleted \cup r.deleted,
                  dropped |-> st.dropped \cup r.dropped,
                  lookups |-> st.lookups + r.lookups,
                  calls |-> Append(st.calls, i),
                  error |-> r.error ], x, y, w, h) :
            r \in LayerSetViewport(layers[i], st.sprites[i],
                     Used \cup st.created, x, y, w, h) }

\* a bug: x is not raised to 0
ClampXNoFloor(x, w) == Min(x, p_width - w)

\* a bug: y is not lowered to the far edge
ClampYNoCeiling(y, h) == Max(y, 0)

\* the clamped viewport position of Map.set_viewport
ClampX(x, w) == Min(Max(x, 0), p_width - w)
ClampY(y, h) == Min(Max(y, 0), p_height - h)

\* a bug: the requested position is compared, not the clamped one
ViewportChangedUnclamped(force, x, y, w, h) ==
    force \/ x # map_x \/ y # map_y \/ w # map_w \/ h # map_h

\* the test of Map.set_viewport that lets a call through
ViewportChanged(force, x, y, w, h) ==
    \/ force
    \/ ClampX(x, w) # map_x \/ ClampY(y, h) # map_y
    \/ w # map_w \/ h # map_h

\* Map.set_viewport(x, y, w, h, force), called as operation `name`
MapSetViewportCall(name, x, y, w, h, force) ==
    LET vx == ClampX(x, w)
        vy == ClampY(y, h)
        vw == w
        vh == h
        rec(r, noop) ==
            [ op |-> name, layer |-> 0,
              x |-> x, y |-> y, w |-> w, h |-> h, key |-> "",
              force |-> force, noop |-> noop, calls |-> r.calls,
              error |-> r.error ]
    IN  IF ~ViewportChanged(force, x, y, w, h)
        THEN /\ last' = rec(NoOp, TRUE)
             /\ UNCHANGED <<sprites, live, deleted_twice, effect,
                            map_x, map_y, map_w, map_h>>
        ELSE \E r \in RunLayers(1,
                        [ sprites |-> sprites, created |-> {}, deleted |-> {},
                          dropped |-> {}, lookups |-> 0, calls |-> <<>>,
                          error |-> "" ], vx, vy, vw, vh) :
                /\ Affordable(r)
                /\ map_x' = vx /\ map_y' = vy /\ map_w' = vw /\ map_h' = vh
                /\ sprites' = r.sprites
                /\ Batch(r)
                /\ last' = rec(r, FALSE)
                /\ UNCHANGED effect

MapSetViewport ==
    \E x \in XPositions, y \in YPositions, w \in Widths, h \in Heights :
        /\ MapSetViewportCall("Map.set_viewport", x, y, w, h, FALSE)
        /\ UNCHANGED <<renderer, game, player, keys_down, queries>>
        /\ UNCHANGED <<mapdata, tilesets, texture_index, layers, groups,
                       map_fx, map_fy, ret>>

\* Map.invalidate()
MapInvalidate ==
    /\ MapSetViewportCall("Map.invalidate", map_x, map_y, map_w, map_h, TRUE)
        /\ UNCHANGED <<renderer, game, player, keys_down, queries>>
        /\ UNCHANGED <<mapdata, tilesets, texture_index, layers, groups,
                   map_fx, map_fy, ret>>

\* a bug: the focus is the viewport's corner, not its centre
FocusXNotCentred(x) == Max(x, 0)

\* the viewport Map.set_focus asks set_viewport for
FocusX(x) ==
    LET vx == Max(x - (map_w \div 2), 0)
    IN  IF vx + (map_w \div 2) > p_width THEN p_width - map_w ELSE vx

FocusY(y) ==
    LET vy == Max(y - (map_h \div 2), 0)
    IN  IF vy + (map_h \div 2) > p_height THEN p_height - map_h ELSE vy

\* Map.set_focus(x, y), for integers x and y
MapSetFocusCall(x, y) ==
    IF map_fx = <<x>> /\ map_fy = <<y>>
    THEN /\ last' = [NoOp EXCEPT !.op = "Map.set_focus",
                        !.x = x, !.y = y, !.noop = TRUE]
         /\ UNCHANGED <<sprites, live, deleted_twice, effect, map_x,
                        map_y, map_w, map_h, map_fx, map_fy>>
    ELSE /\ map_fx' = <<x>> /\ map_fy' = <<y>>
         /\ MapSetViewportCall("Map.set_focus", FocusX(x), FocusY(y),
                               map_w, map_h, FALSE)

\* Map.set_focus(x, y)
MapSetFocus ==
    \E x \in XPositions, y \in YPositions :
        /\ MapSetFocusCall(x, y)
        /\ UNCHANGED <<renderer, game, player, keys_down, queries>>
        /\ UNCHANGED <<mapdata, tilesets, texture_index, layers, groups, ret>>

(***************************************************************************)
(* Map: lookups.                                                           *)
(***************************************************************************)
\* Map.get_texture(gid)
MapGetTexture ==
    \E gid \in 0 .. MaxGid :
        /\ ret' = get_texture(gid)
        /\ last' = [NoOp EXCEPT !.op = "Map.get_texture", !.x = gid]
        /\ UNCHANGED <<renderer, game, player, keys_down, queries>>
        /\ UNCHANGED <<mapdata, tilesets, texture_index, layers, groups,
                       sprites, live, deleted_twice, map_x, map_y, map_w,
                       map_h, map_fx, map_fy, effect>>

\* (px, py) in layer, for a tile layer
TileContains ==
    \E li \in DOMAIN layers, px, py \in (0 - MaxCoord) .. MaxCoord :
        /\ layers[li].type = "tilelayer"
        /\ ret' = TileLayerContains(layers[li], px, py)
        /\ last' = [NoOp EXCEPT !.op = "TileLayer.__contains__",
                                !.layer = li, !.x = px, !.y = py]
        /\ UNCHANGED <<renderer, game, player, keys_down, queries>>
        /\ UNCHANGED <<mapdata, tilesets, texture_index, layers, groups,
                       sprites, live, deleted_twice, map_x, map_y, map_w,
                       map_h, map_fx, map_fy, effect>>

\* layer[(px, py)], for a tile layer
TileGetItem ==
    \E li \in DOMAIN layers, px, py \in (0 - MaxCoord) .. MaxCoord :
        /\ layers[li].type = "tilelayer"
        /\ ret' = TileLayerGetItem(layers[li], px, py)
        /\ last' = [NoOp EXCEPT !.op = "TileLayer.__getitem__",
                                !.layer = li, !.x = px, !.y = py]
        /\ UNCHANGED <<renderer, game, player, keys_down, queries>>
        /\ UNCHANGED <<mapdata, tilesets, texture_index, layers, groups,
                       sprites, live, deleted_twice, map_x, map_y, map_w,
                       map_h, map_fx, map_fy, effect>>

\* the names, types and tile coordinates asked for
ObjectNames == {"a", "b", "z"}
ObjectTypes == {"door", "key", "z"}
ObjectCoordinates == { <<0, 0 - 1>>, <<2, 0>>, <<1, 0>>, <<0, 0>> }

\* layer.data["data"][k] = gid, done by the program that owns the Map
SetTile ==
    \E li \in DOMAIN layers, gid \in {0, 2} :
        /\ layers[li].type = "tilelayer"
        /\ \E k \in DOMAIN layers[li].data :
              /\ layers[li].data[k] # gid
              /\ layers' = [layers EXCEPT ![li].data[k] = gid]
              /\ last' = [NoOp EXCEPT !.op = "data[k] = gid", !.layer = li,
                                      !.x = k - 1, !.y = gid]
        /\ UNCHANGED <<renderer, game, player, keys_down, queries>>
        /\ UNCHANGED <<mapdata, tilesets, texture_index, groups, sprites,
                       live, deleted_twice, map_x, map_y, map_w, map_h,
                       map_fx, map_fy, effect, ret>>

\* a dictionary lookup d[k]
DictGet(d, k) == IF k \in DOMAIN d THEN Ok(d[k]) ELSE Raise("KeyError")

\* group[name] and group.get_by_type(otype), for an object group
ObjectGetByName ==
    \E li \in DOMAIN layers, name \in ObjectNames :
        /\ layers[li].type = "objectgroup"
        /\ ret' = DictGet(layers[li]._index, name)
        /\ last' = [NoOp EXCEPT !.op = "ObjectGroup.__getitem__(name)",
                                !.layer = li, !.key = name]
        /\ effect' = NoEffect
        /\ UNCHANGED <<renderer, game, player, keys_down, queries>>
        /\ UNCHANGED <<mapdata, tilesets, texture_index, layers, groups,
                       sprites, live, deleted_twice, map_x, map_y, map_w,
                       map_h, map_fx, map_fy>>

ObjectGetByType ==
    \E li \in DOMAIN layers, otype \in ObjectTypes :
        /\ layers[li].type = "objectgroup"
        /\ ret' = DictGet(layers[li]._index_type, otype)
        /\ last' = [NoOp EXCEPT !.op = "ObjectGroup.get_by_type",
                                !.layer = li, !.key = otype]
        /\ effect' = NoEffect
        /\ UNCHANGED <<renderer, game, player, keys_down, queries>>
        /\ UNCHANGED <<mapdata, tilesets, texture_index, layers, groups,
                       sprites, live, deleted_twice, map_x, map_y, map_w,
                       map_h, map_fx, map_fy>>

\* group[(cx, cy)]: the first object of the coordinate's list
ObjectGetByCoordinate ==
    \E li \in DOMAIN layers, c \in ObjectCoordinates :
        /\ layers[li].type = "objectgroup"
        /\ ret' = IF c \in DOMAIN layers[li]._xy_index
                  THEN Ok(layers[li]._xy_index[c][1])
                  ELSE Raise("KeyError")
        /\ last' = [NoOp EXCEPT !.op = "ObjectGroup.__getitem__(tuple)",
                                !.layer = li, !.x = c[1], !.y = c[2]]
        /\ effect' = NoEffect
        /\ UNCHANGED <<renderer, game, player, keys_down, queries>>
        /\ UNCHANGED <<mapdata, tilesets, texture_index, layers, groups,
                       sprites, live, deleted_twice, map_x, map_y, map_w,
                       map_h, map_fx, map_fy>>

\* (cx, cy) in group
ObjectContainsCoordinate ==
    \E li \in DOMAIN layers, c \in ObjectCoordinates :
        /\ layers[li].type = "objectgroup"
        /\ ret' = Ok(c \in DOMAIN layers[li]._xy_index)
        /\ last' = [NoOp EXCEPT !.op = "ObjectGroup.__contains__(tuple)",
                                !.layer = li, !.x = c[1], !.y = c[2]]
        /\ effect' = NoEffect
        /\ UNCHANGED <<renderer, game, player, keys_down, queries>>
        /\ UNCHANGED <<mapdata, tilesets, texture_index, layers, groups,
                       sprites, live, deleted_twice, map_x, map_y, map_w,
                       map_h, map_fx, map_fy>>

\* calculate_columns(image_width, tile_width, margin, spacing)
CalculateColumns ==
    \E iw \in 0 .. MaxImage, tw \in 1 .. MaxTile, m \in {0, 1},
       sp \in 0 .. MaxSpacing :
        /\ ret' = calculate_columns(iw, tw, m, sp)
        /\ last' = [NoOp EXCEPT !.op = "calculate_columns", !.x = iw,
                                !.y = tw, !.w = m, !.h = sp]
        /\ UNCHANGED <<renderer, game, player, keys_down, queries>>
        /\ UNCHANGED <<mapdata, tilesets, texture_index, layers, groups,
                       sprites, live, deleted_twice, map_x, map_y, map_w,
                       map_h, map_fx, map_fy, effect>>

\* the tmx files loaded: 2 x 2 maps of one or two layers over a tileset of
\* four tiles, of which the first two are declared, with or without a wall
TmxLayerChoices == { <<1, 0, 0, 0>>, <<0, 0, 2, 0>>, <<2, 1, 0, 3>> }

TmxFiles ==
    { [ width |-> 2, height |-> 2,
        tilesets |-> << [ firstgid |-> 1, columns |-> 2, tilecount |-> 4,
                          tiles |-> << [id |-> 0, wall |-> w1],
                                       [id |-> 1, wall |-> w2] >> ] >>,
        layers |-> ls ] :
        w1 \in {0, 1}, w2 \in {0, 2},
        ls \in { <<a>> : a \in TmxLayerChoices }
               \cup { <<a, b>> : a \in TmxLayerChoices,
                                b \in TmxLayerChoices } }

(***************************************************************************)
(* MapRenderer.                                                            *)
(***************************************************************************)
\* the tiles of the layers in the order the two loops of load visit them:
\* layer by layer, each by flat index i
RECURSIVE Placements(_)
Placements(tmxlayers) ==
    IF tmxlayers = <<>> THEN <<>>
    ELSE LET n == Len(tmxlayers)
         IN  Placements(SubSeq(tmxlayers, 1, n - 1))
               \o [k \in 1 .. Len(tmxlayers[n]) |->
                     [i |-> k - 1, gid |-> tmxlayers[n][k]]]

\* the body of the inner loop of load for one tile
PlaceTile(r, p) ==
    IF p.gid = 0 \/ p.gid \notin DOMAIN r.tiles THEN r
    ELSE LET x == p.i % r.width
             y == r.height - (p.i \div r.width) - 1
             c == <<x, y>>
         IN  [r EXCEPT
                !.shadow_casters =
                    IF p.gid \in DOMAIN r.collision_tiles
                    THEN Update(@, [k \in {c} |-> r.collision_tiles[p.gid]])
                    ELSE @,
                !.sprites = Update(@, [k \in {c} |-> r.tiles[p.gid]])]

RECURSIVE PlaceTiles(_, _)
PlaceTiles(r, ps) ==
    IF ps = <<>> THEN r
    ELSE PlaceTile(PlaceTiles(r, SubSeq(ps, 1, Len(ps) - 1)), ps[Len(ps)])

\* MapRenderer.load(tmxfile) on the renderer r: the tables by gid are built
\* anew from the tileset, then the layers' tiles are placed.  A tile's wall
\* is int(props.get('wall', '0')); the tiles declare no lights.
MapRendererLoad(r, tmxfile) ==
    LET tileset == tmxfile.tilesets[1]
        rows == (tileset.tilecount + tileset.columns - 1) \div tileset.columns
        T == { tileset.tiles[k] : k \in DOMAIN tileset.tiles }
        walls == { t \in T : t.wall # 0 }
        tables ==
            [ width |-> tmxfile.width,
              height |-> tmxfile.height,
              tiles |-> [ gid \in { tileset.firstgid + t.id : t \in T } |->
                            LET id == gid - tileset.firstgid
                            IN  << rows - 1 - (id \div tileset.columns),
                                   id % tileset.columns >> ],
              collision_gids |-> { tileset.firstgid + t.id : t \in walls },
              collision_tiles |->
                  [ gid \in { tileset.firstgid + t.id : t \in walls } |->
                      (CHOOSE t \in walls :
                          tileset.firstgid + t.id = gid).wall ],
              sprites |-> EmptyDict,
              shadow_casters |-> r.shadow_casters ]
    IN  PlaceTiles(tables, Placements(tmxfile.layers))

\* the arguments of the last operation, when it was renderer.load(tmxfile)
LoadOp(tmxfile) ==
    [ op |-> "MapRenderer.load", layer |-> 0, x |-> 0, y |-> 0, w |-> 0,
      h |-> 0, key |-> "", force |-> FALSE, noop |-> FALSE, calls |-> <<>>,
      error |-> "", tmxfile |-> tmxfile ]

\* renderer.load(tmxfile): the call MapRenderer.__init__ makes after it set
\* shadow_casters = {}, and any later call on the same renderer
RendererLoad ==
    \E tmxfile \in TmxFiles :
        /\ Len(tmxfile.tilesets) = 1
        /\ renderer' = MapRendererLoad(renderer, tmxfile)
        /\ last' = LoadOp(tmxfile)
        /\ UNCHANGED <<game, player, keys_down, queries>>
        /\ UNCHANGED <<mapdata, tilesets, texture_index, layers, groups,
                       sprites, live, deleted_twice, map_x, map_y, map_w,
                       map_h, map_fx, map_fy, effect, ret>>

(***************************************************************************)
(* The game: Level, Player and the window's key events (main.py).  A Vector *)
(* is a pair; positions and speeds, floats in the program, are counted in   *)
(* 1/Scale of a pixel.                                                      *)
(***************************************************************************)
Scale == 2000

\* sin_45degrees, in 1/Scale (0.707)
Sin45 == 1414

speed_multiplier == 10

acceleration_frames == 20

VAdd(a, b) == <<a[1] + b[1], a[2] + b[2]>>
VSub(a, b) == <<a[1] - b[1], a[2] - b[2]>>
VMul(a, n) == <<a[1] * n, a[2] * n>>

\* the symbols of pyglet.window.key the program hears of
Symbols == {"W", "S", "A", "D", "UP", "DOWN", "LEFT", "RIGHT", "SPACE", "LCTRL"}

\* the keys of Player.movement_vectors
ArrowKeys == {"UP", "DOWN", "LEFT", "RIGHT"}

\* Player.movement_vectors: (0, 0) is at the upper left
movement_vectors(k) ==
    CASE k = "UP" -> <<0, 0 - 1>>
      [] k = "DOWN" -> <<0, 1>>
      [] k = "LEFT" -> <<0 - 1, 0>>
      [] k = "RIGHT" -> <<1, 0>>

\* Player.movement_opposites
movement_opposites(k) ==
    CASE k = "UP" -> "DOWN"
      [] k = "DOWN" -> "UP"
      [] k = "LEFT" -> "RIGHT"
      [] k = "RIGHT" -> "LEFT"

\* key_remapper.get(symbol, symbol)
key_remapper(symbol) ==
    CASE symbol = "W" -> "UP"
      [] symbol = "S" -> "DOWN"
      [] symbol = "A" -> "LEFT"
      [] symbol = "D" -> "RIGHT"
      [] OTHER -> symbol

\* Player.calculate_normalized_desired_speed
calculate_normalized_desired_speed(p) ==
    LET ds == p.desired_speed
        n == IF ~(ds[1] # 0 /\ ds[2] # 0) THEN VMul(ds, Scale)
             ELSE <<ds[1] * Sin45, ds[2] * Sin45>>
    IN  [p EXCEPT !.normalized_desired_speed = VMul(n, speed_multiplier)]

\* Player.on_key_press(symbol): the player after it, and whether it
\* returned EVENT_HANDLED
PlayerOnKeyPress(p, symbol) ==
    IF game.paused \/ symbol \notin ArrowKeys
    THEN [handled |-> FALSE, player |-> p]
    ELSE LET keys == p.movement_keys \cup {symbol}
             ds == VAdd(p.desired_speed, movement_vectors(symbol))
             opposite == movement_opposites(symbol)
             q == IF opposite \in keys
                  THEN [p EXCEPT
                          !.desired_speed =
                              VSub(ds, movement_vectors(opposite)),
                          !.movement_keys = keys \ {opposite}]
                  ELSE [p EXCEPT !.desired_speed = ds,
                                 !.movement_keys = keys]
         IN  [handled |-> TRUE,
              player |-> calculate_normalized_desired_speed(q)]

\* Player.on_key_release(symbol)
PlayerOnKeyRelease(p, symbol) ==
    IF game.paused \/ symbol \notin ArrowKeys
    THEN [handled |-> FALSE, player |-> p]
    ELSE [handled |-> TRUE,
          player |->
            IF symbol \in p.movement_keys
            THEN calculate_normalized_desired_speed(
                   [p EXCEPT
                      !.movement_keys = p.movement_keys \ {symbol},
                      !.desired_speed =
                          VSub(p.desired_speed, movement_vectors(symbol))])
            ELSE p]

\* the window's on_key_press and on_key_release for the key `key`: the
\* symbol is remapped, the player hears of it first, then the handler of
\* the symbol (that of SPACE toggles the pause on a press)
KeyEvent(key, pressed) ==
    LET symbol == key_remapper(key)
        r == IF pressed THEN PlayerOnKeyPress(player, symbol)
             ELSE PlayerOnKeyRelease(player, symbol)
    IN  /\ player' = r.player
        /\ game' = IF ~r.handled /\ symbol = "SPACE" /\ pressed
                   THEN [game EXCEPT !.paused = ~game.paused]
                   ELSE game
        /\ keys_down' = IF pressed THEN keys_down \cup {key}
                        ELSE keys_down \ {key}
        /\ last' = [NoOp EXCEPT
                      !.op = IF pressed THEN "on_key_press"
                             ELSE "on_key_release",
                      !.key = key]
        /\ UNCHANGED <<renderer, queries>>
        /\ UNCHANGED <<mapdata, tilesets, texture_index, layers, groups,
                       sprites, live, deleted_twice, map_x, map_y, map_w,
                       map_h, map_fx, map_fy, effect, ret>>

\* the window, as wide and as high as one tile of the levels modelled
WindowWidth == 16

WindowHeight == 16

\* Level.collision_tiles and Level.player_position_tiles: the tiles of the
\* second and of the third layer of the map
collision_tiles == layers[2].data

player_position_tiles == layers[3].data

upper_left == <<0, 0>>

lower_right ==
    <<mapdata.width * mapdata.tilewidth * Scale,
      mapdata.height * mapdata.tileheight * Scale>>

\* Level.position_to_tile_index: // rounds down, the assertion bounds the
\* index from above only
position_to_tile_index(v) ==
    LET index == (v[2] \div (mapdata.tileheight * Scale)) * mapdata.width
                    + (v[1] \div (mapdata.tilewidth * Scale))
    IN  IF index < Len(collision_tiles) THEN Ok(index)
        ELSE Raise("AssertionError")

\* Level.tile_index_to_position
tile_index_to_position(index) ==
    LET y == index \div mapdata.width
        x == index - (y * mapdata.width)
    IN  <<x * mapdata.tilewidth * Scale, y * mapdata.tileheight * Scale>>

\* Level.collision_tile_at: the gid at the index, a negative index counted
\* from the end of the list
collision_tile_at(v) ==
    LET i == position_to_tile_index(v)
        n == Len(collision_tiles)
    IN  IF ~i.ok THEN i
        ELSE IF i.value >= 0 THEN Ok(collision_tiles[i.value + 1])
        ELSE IF i.value >= 0 - n THEN Ok(collision_tiles[i.value + n + 1])
        ELSE Raise("IndexError")

\* Player.__init__: the player stands one tile below the corner of the
\* first tile of the player position layer that has a gid
NewPlayer ==
    LET I == { i \in DOMAIN player_position_tiles :
                 player_position_tiles[i] # 0 }
        start == IF I = {} THEN <<0, 0>>
                 ELSE tile_index_to_position(
                        (CHOOSE i \in I : \A j \in I : i <= j) - 1)
    IN  [ position |-> VAdd(start, <<0, mapdata.tileheight * Scale>>),
          desired_speed |-> <<0, 0>>,
          normalized_desired_speed |-> <<0, 0>>,
          speed |-> <<0, 0>>,
          movement_keys |-> {} ]

\* Player.on_player_move: the map is focused on the player
on_player_move(p) ==
    MapSetFocusCall(p.position[1] \div Scale, p.position[2] \div Scale)

\* level = Level("prototype"): the map of three layers is shown in the window
LevelInit ==
    /\ last.op = "init"
    /\ Len(layers) = 3
    /\ MapSetViewportCall("Level", 0, 0, WindowWidth, WindowHeight, FALSE)
    /\ UNCHANGED <<renderer, game, player, keys_down, queries>>
    /\ UNCHANGED <<mapdata, tilesets, texture_index, layers, groups,
                   map_fx, map_fy, ret>>

\* player = Player(); player.on_player_move()
PlayerInit ==
    /\ last.op = "Level"
    /\ player' = NewPlayer
    /\ on_player_move(NewPlayer)
    /\ UNCHANGED <<renderer, game, keys_down, queries>>
    /\ UNCHANGED <<mapdata, tilesets, texture_index, layers, groups, ret>>

\* the program has reached its event loop, and no handler has failed
Running ==
    /\ map_fx # <<>>
    /\ ~(last.op = "Player.on_update" /\ last.error # "")

\* a key that is up goes down
KeyPress ==
    /\ Running
    /\ Cardinality(keys_down) < MaxHeld
    /\ \E key \in Symbols \ keys_down :
          /\ KeyEvent(key, TRUE)
          /\ \A i \in 1 .. 2 :
                /\ player'.desired_speed[i] <= MaxDesired
                /\ player'.desired_speed[i] >= 0 - MaxDesired

\* a key that is down goes up
KeyRelease ==
    /\ Running
    /\ \E key \in keys_down : KeyEvent(key, FALSE)

\* vector_clamp(v, other)
vector_clamp(v, other) ==
    LET c(a, o) == IF o = 0 THEN 0
                   ELSE IF o < 0 THEN Max(a, o) ELSE Min(a, o)
    IN  <<c(v[1], other[1]), c(v[2], other[2])>>

\* the first part of Player.on_update: the speed moves by one frame's
\* acceleration towards normalized_desired_speed
Accelerate(p) ==
    IF p.speed # p.normalized_desired_speed
    THEN LET delta ==
                <<p.normalized_desired_speed[1] \div acceleration_frames,
                  p.normalized_desired_speed[2] \div acceleration_frames>>
         IN  [p EXCEPT !.speed = vector_clamp(VAdd(p.speed, delta),
                                              p.normalized_desired_speed)]
    ELSE p

\* the orders in which `for key in self.movement_keys` can visit the keys
Orders(K) ==
    { o \in [1 .. Cardinality(K) -> K] : \A k \in K : \E i \in DOMAIN o : o[i] = k }

\* the collision_tile_at call made for key, from new_position: the point
\* asked about is 8 pixels ahead
Probe(key, new_position) ==
    LET vector == VMul(movement_vectors(key), 8 * Scale)
        tile_position == VAdd(new_position, vector)
    IN  [ key |-> key, tile_position |-> tile_position,
          index |-> position_to_tile_index(tile_position),
          gid |-> collision_tile_at(tile_position) ]

\* Player.on_update(dt), scheduled 60 times a second
OnUpdate ==
    /\ Running
    /\ LET p == Accelerate(player)
           update == [NoOp EXCEPT !.op = "Player.on_update"]
       IN  IF p.speed = <<0, 0>>
           THEN /\ player' = p
                /\ queries' = <<>>
                /\ last' = update
                /\ UNCHANGED <<sprites, live, deleted_twice, effect, map_x,
                               map_y, map_w, map_h, map_fx, map_fy>>
           ELSE \E order \in Orders(p.movement_keys) :
                  LET new_position == VAdd(p.position, p.speed)
                      cx == Min(Max(new_position[1], upper_left[1]),
                                lower_right[1])
                      cy == Min(Max(new_position[2], upper_left[2]),
                                lower_right[2])
                      probes == [i \in DOMAIN order |->
                                    Probe(order[i], new_position)]
                      failing == { i \in DOMAIN order : ~probes[i].gid.ok }
                      first == CHOOSE i \in failing :
                                  \A j \in failing : i <= j
                      hit(axis) ==
                          \E i \in DOMAIN order :
                              /\ probes[i].gid.value # 0
                              /\ movement_vectors(order[i])[axis] # 0
                      x == IF hit(1) THEN p.position[1] ELSE cx
                      y == IF hit(2) THEN p.position[2] ELSE cy
                      moved == [p EXCEPT !.position = <<x, y>>]
                  IN  IF failing # {}
                      THEN /\ player' = p
                           /\ queries' = SubSeq(probes, 1, first)
                           /\ last' = [update EXCEPT
                                         !.error = probes[first].gid.value]
                           /\ UNCHANGED <<sprites, live, deleted_twice,
                                          effect, map_x, map_y, map_w, map_h,
                                          map_fx, map_fy>>
                      ELSE /\ player' = moved
                           /\ queries' = probes
                           /\ IF moved.position # p.position
                              THEN on_player_move(moved)
                              ELSE /\ last' = update
                                   /\ UNCHANGED <<sprites, live,
                                          deleted_twice, effect, map_x, map_y,
                                          map_w, map_h, map_fx, map_fy>>
    /\ UNCHANGED <<renderer, game, keys_down>>
    /\ UNCHANGED <<mapdata, tilesets, texture_index, layers, groups, ret>>

\* an arrow key goes down while the player is at rest
KeyPressAtRest ==
    /\ Running
    /\ player.speed = <<0, 0>>
    /\ \E key \in ArrowKeys \ keys_down : KeyEvent(key, TRUE)

(***************************************************************************)
(* Map descriptions the behaviours start from.                             *)
(***************************************************************************)
\* a 3 x 2 atlas of 2 x 2 tiles: gids 1 .. 6
Atlas ==
    [ name |-> "atlas", firstgid |-> 1, imagewidth |-> 6, imageheight |-> 4,
      tilewidth |-> 2, tileheight |-> 2, margin |-> 0, spacing |-> 0,
      tileoffset |-> <<>> ]

TileLayerDesc(name, visible, data) ==
    [ name |-> name, type |-> "tilelayer", visible |-> visible,
      data |-> data, objects |-> <<>> ]

ObjectGroupDesc(name, visible, objects) ==
    [ name |-> name, type |-> "objectgroup", visible |-> visible,
      data |-> <<>>, objects |-> objects ]

Obj(name, x, y, visible, hasgid, gid) ==
    [ name |-> name, type |-> "thing", x |-> x, y |-> y,
      visible |-> visible, hasgid |-> hasgid, gid |-> gid ]

MapDesc(width, height, tilewidth, tileheight, ls) ==
    [ width |-> width, height |-> height,
      tilewidth |-> tilewidth, tileheight |-> tileheight,
      tilesets |-> <<Atlas>>, layers |-> ls ]

\* tile data of a 2 x 2 map; gid 0 is "no tile", gid 9 is in no tileset
TileDataChoices == { <<1, 0, 9, 4>> }

\* objects: two tile objects on one spot, one of an unknown gid, a shape
\* (no gid), a hidden tile object
ObjectLists ==
    { << Obj("a", 1, 1, TRUE, TRUE, 1), Obj("b", 4, 1, TRUE, TRUE, 2) >>,
      << Obj("a", 1, 1, TRUE, TRUE, 1), Obj("b", 1, 1, TRUE, TRUE, 2) >>,
      << Obj("c", 4, 1, TRUE, TRUE, 9), Obj("a", 1, 1, TRUE, TRUE, 1) >>,
      << Obj("d", 1, 1, TRUE, FALSE, 0), Obj("e", 1, 0, FALSE, TRUE, 3),
         Obj("f", 4, 3, TRUE, TRUE, 6) >> }

\* the objects of the 1 x 1 map: a tile object of an unknown gid
MapObjectLists ==
    { << Obj("c", 1, 1, TRUE, TRUE, 9) >> }

\* an object of a type
TypedObj(name, otype, x, y, visible, hasgid, gid) ==
    [Obj(name, x, y, visible, hasgid, gid) EXCEPT !.type = otype]

\* objects that share names, types and tile coordinates, in an order the
\* sort by x + y*width changes: sorted, the third comes first and the first last
IndexObjectLists ==
    { << TypedObj("a", "door", 4, 3, TRUE, FALSE, 0),
         TypedObj("b", "door", 1, 1, TRUE, TRUE, 1),
         TypedObj("a", "key", 0, 1, TRUE, FALSE, 0) >> }

\* layers named a or b, of both types, visible or not, with little in them
LayerDescs ==
    { TileLayerDesc("a", TRUE, <<1>>), TileLayerDesc("b", TRUE, <<1>>),
      TileLayerDesc("a", FALSE, <<1>>),
      ObjectGroupDesc("a", TRUE, << Obj("a", 1, 1, TRUE, TRUE, 1) >>) }

RECURSIVE LayerLists(_)
LayerLists(n) ==
    IF n = 0 THEN { <<>> }
    ELSE LET shorter == LayerLists(n - 1)
         IN  shorter \cup { Append(l, d) : l \in shorter, d \in LayerDescs }

\* atlases of 2 x 2 tiles, of every image size, margin and spacing
AtlasChoices ==
    { [ name |-> "first", firstgid |-> 1, imagewidth |-> iw,
        imageheight |-> ih, tilewidth |-> 2, tileheight |-> 2,
        margin |-> m, spacing |-> sp, tileoffset |-> <<>> ] :
        iw \in 1 .. MaxImage, ih \in 1 .. MaxImage,
        m \in {0, 1}, sp \in {0, 1} }

\* the tileset lists of a map: one atlas, or one atlas and after its gids
\* the 3 x 2 atlas
TilesetLists ==
    { <<a>> : a \in AtlasChoices }
    \cup { << a, [Atlas EXCEPT !.firstgid =
                    1 + Tileset(a).value.columns * Tileset(a).value.rows] >> :
            a \in { b \in AtlasChoices : Tileset(b).ok } }

(***************************************************************************)
(* Specifications.                                                         *)
(***************************************************************************)
\* one tile layer, set_viewport called on it directly
InitTile ==
    \E data \in TileDataChoices :
        MapInit(MapDesc(2, 2, 2, 2, <<TileLayerDesc("ground", TRUE, data)>>))

NextTile == TileSetViewport

SpecTile == InitTile /\ [][NextTile]_vars

\* one object group, set_viewport called on it directly
InitObject ==
    \E objs \in ObjectLists :
        MapInit(MapDesc(2, 2, 2, 2, <<ObjectGroupDesc("things", TRUE, objs)>>))

NextObject == ObjectSetViewport

SpecObject == InitObject /\ [][NextObject]_vars

\* a Map of a tile layer under an object group
Init ==
    \E objs \in MapObjectLists :
        MapInit(MapDesc(1, 1, 1, 2, <<TileLayerDesc("ground", TRUE, <<1>>),
                                      ObjectGroupDesc("things", TRUE, objs)>>))

Next == MapSetViewport \/ MapInvalidate

Spec == Init /\ [][Next]_vars

\* a Map of one tile layer, its viewport also set through the focus
InitFocus ==
    MapInit(MapDesc(1, 1, 1, 2, <<TileLayerDesc("ground", TRUE, <<1>>)>>))

NextFocus == MapSetViewport \/ MapInvalidate \/ MapSetFocus

SpecFocus == InitFocus /\ [][NextFocus]_vars

\* a Map larger than its viewport, the viewport set directly and by focus
InitCentre ==
    \E data \in TileDataChoices :
        MapInit(MapDesc(2, 2, 2, 2, <<TileLayerDesc("ground", TRUE, data)>>))

NextCentre == MapSetViewport \/ MapSetFocus

SpecCentre == InitCentre /\ [][NextCentre]_vars

\* a Map of one tile layer whose tiles are changed under it
InitInvalidate == InitFocus

NextInvalidate == MapSetViewport \/ MapInvalidate \/ SetTile

SpecInvalidate == InitInvalidate /\ [][NextInvalidate]_vars

\* a MapRenderer about to load its first tmx file, then made to load others
InitRenderer == MapInit(MapDesc(1, 1, 1, 2, <<>>))

NextRenderer == RendererLoad

SpecRenderer == InitRenderer /\ [][NextRenderer]_vars

\* a Map of any atlas and no layer, its textures looked up
InitGid ==
    \E tss \in TilesetLists :
        MapInit([ width |-> 2, height |-> 2, tilewidth |-> 2,
                  tileheight |-> 2, tilesets |-> tss, layers |-> <<>> ])

NextGid == MapGetTexture

SpecGid == InitGid /\ [][NextGid]_vars

\* one object group, asked for its objects while the viewport moves
InitIndex ==
    \E objs \in IndexObjectLists :
        MapInit(MapDesc(2, 2, 2, 2, <<ObjectGroupDesc("things", TRUE, objs)>>))

NextIndex ==
    \/ ObjectSetViewport
    \/ ObjectGetByName
    \/ ObjectGetByType
    \/ ObjectGetByCoordinate
    \/ ObjectContainsCoordinate

SpecIndex == InitIndex /\ [][NextIndex]_vars

\* calculate_columns applied to image and tile sizes of every kind
InitColumns == InitFocus

NextColumns == CalculateColumns

SpecColumns == InitColumns /\ [][NextColumns]_vars

\* the map descriptions of up to MaxLayers layers
LayerMapDescs == { MapDesc(1, 1, 1, 2, ls) : ls \in LayerLists(MaxLayers) }

\* Map(data) for another map: its visible layers take group numbers too
OtherMap ==
    \E desc \in { d \in LayerMapDescs :
                    BuildLayers(d.layers, d, groups).ok } :
        LET ls == BuildLayers(desc.layers, desc, groups).value
        IN  /\ ls.groups <= MaxGroups
            /\ groups' = ls.groups
            /\ last' = [NoOp EXCEPT !.op = "Map", !.w = Len(desc.layers)]
        /\ UNCHANGED <<renderer, game, player, keys_down, queries>>
        /\ UNCHANGED <<mapdata, tilesets, texture_index, layers, sprites,
                           live, deleted_twice, map_x, map_y, map_w, map_h,
                           map_fx, map_fy, effect, ret>>

\* Maps of every short list of layers, other Maps constructed besides
InitLayers ==
    \E desc \in LayerMapDescs, g \in {0, 1} : MapInitFrom(desc, g)

NextLayers == OtherMap

SpecLayers == InitLayers /\ [][NextLayers]_vars

\* one tile layer, asked for its tiles
InitLookup == InitTile

NextLookup == TileContains \/ TileGetItem

SpecLookup == InitLookup /\ [][NextLookup]_vars

\* a Map of 2 x 2 tiles whose second row starts with a tile: the flat index
\* of the coordinate right of the first row is that of this tile
InitOverscan ==
    MapInit(MapDesc(2, 2, 2, 2, <<TileLayerDesc("ground", TRUE, <<1, 0, 2, 0>>)>>))

NextOverscan == MapSetViewport

SpecOverscan == InitOverscan /\ [][NextOverscan]_vars

\* levels of 2 x 2 tiles of 16 x 16 pixels: a background, a wall at the
\* lower right, and the player's tile in any of three places
LevelDesc(start) ==
    MapDesc(2, 2, 16, 16,
            << TileLayerDesc("background", TRUE, <<1, 1, 0, 0>>),
               TileLayerDesc("collision", TRUE, <<0, 0, 0, 2>>),
               TileLayerDesc("player", TRUE, start) >>)

LevelDescs ==
    { LevelDesc(start) :
        start \in { <<3, 0, 0, 0>>, <<0, 3, 0, 0>>, <<0, 0, 3, 0>> } }

\* the program up to its event loop, then the keyboard
InitKeys == MapInit(LevelDesc(<<3, 0, 0, 0>>))

NextKeys == LevelInit \/ PlayerInit \/ KeyPress \/ KeyRelease

SpecKeys == InitKeys /\ [][NextKeys]_vars

\* the program up to its event loop; then arrow keys are pressed, and held,
\* and the player moves frame by frame
InitMove == \E desc \in LevelDescs : MapInit(desc)

NextMove == LevelInit \/ PlayerInit \/ KeyPressAtRest \/ OnUpdate

SpecMove == InitMove /\ [][NextMove]_vars

(***************************************************************************)
(* Properties.                                                             *)
(***************************************************************************)
\* the tile coordinates a viewport of the modelled sizes can come near
NearTiles ==
    { <<px, py>> : px \in (0 - XLow - 2) .. (XHigh + MaxW + 2),
                   py \in (0 - 3) .. 5 }

\* the rectangle of tile c meets [x0, x1) x [y0, y1)
TileMeets(c, x0, x1, y0, y1) ==
    /\ c[1] * mapdata.tilewidth < x1
    /\ (c[1] + 1) * mapdata.tilewidth > x0
    /\ c[2] * mapdata.tileheight < y1
    /\ (c[2] + 1) * mapdata.tileheight > y0

\* f rounded down to a multiple of s
SnapDown(f, s) == s * (f \div s)

\* C1 as stated: after TileLayer.set_viewport(x, y, w, h) the pool has an
\* entry for every tile whose rectangle meets [x, x+w+tw) x [y, y+h+th),
\* also when x and y are not multiples of the tile size
C1_PoolCompleteAnyOrigin ==
    last.op = "TileLayer.set_viewport" =>
        \A c \in NearTiles :
            TileMeets(c, last.x, last.x + last.w + mapdata.tilewidth,
                         last.y, last.y + last.h + mapdata.tileheight)
                => c \in DOMAIN sprites[last.layer]

\* C1 amended: after TileLayer.set_viewport(x, y, w, h) the pool has an
\* entry for every tile whose rectangle meets the expanded rectangle taken
\* from the origin rounded down to the tile grid,
\* [x0, x0+w+tw) x [y0, y0+h+th) with x0 = tw*(x div tw), y0 = th*(y div th)
C1_PoolCompleteSnappedOrigin ==
    last.op = "TileLayer.set_viewport" =>
        LET x0 == SnapDown(last.x, mapdata.tilewidth)
            y0 == SnapDown(last.y, mapdata.tileheight)
        IN  \A c \in NearTiles :
                TileMeets(c, x0, x0 + last.w + mapdata.tilewidth,
                             y0, y0 + last.h + mapdata.tileheight)
                    => c \in DOMAIN sprites[last.layer]

\* a call whose x and y are off the tile grid, after which a sprite is pooled
C1_Witness ==
    /\ last.op = "TileLayer.set_viewport"
    /\ last.x % mapdata.tilewidth # 0
    /\ last.y % mapdata.tileheight # 0
    /\ \E c \in DOMAIN sprites[last.layer] : sprites[last.layer][c] # None

\* C2: after TileLayer.set_viewport(x, y, w, h) the keys of the pool are
\* exactly the set in_use this call computed, and none of them is a tile
\* whose rectangle lies outside [x, x+w+tw) x [y, y+h+th)
C2_NoStaleEntries ==
    last.op = "TileLayer.set_viewport" =>
        /\ DOMAIN sprites[last.layer] = effect.in_use
        /\ \A c \in DOMAIN sprites[last.layer] :
              TileMeets(c, last.x, last.x + last.w + mapdata.tilewidth,
                           last.y, last.y + last.h + mapdata.tileheight)

\* a call that evicted a sprite of an earlier viewport and created another
C2_Witness ==
    /\ last.op = "TileLayer.set_viewport"
    /\ effect.deleted # {}
    /\ effect.created # {}

\* C3: a Map.set_viewport without force whose clamped position and size
\* equal the stored viewport changes no state of the Map, calls
\* set_viewport on no layer and creates and deletes no sprite
C3_Debounce ==
    [][ ( /\ last'.op = "Map.set_viewport"
          /\ ~last'.force
          /\ Min(Max(last'.x, 0), p_width - last'.w) = map_x
          /\ Min(Max(last'.y, 0), p_height - last'.h) = map_y
          /\ last'.w = map_w
          /\ last'.h = map_h )
        => ( /\ UNCHANGED <<map_x, map_y, map_w, map_h, map_fx, map_fy,
                            sprites, live, deleted_twice, layers>>
             /\ last'.calls = <<>>
             /\ last'.noop ) ]_vars

\* a Map.set_viewport that returned early while sprites were on screen
C3_Witness ==
    /\ last.op = "Map.set_viewport"
    /\ last.noop
    /\ live # {}
    /\ last.x # map_x

\* C4: whatever TileLayer.set_viewport calls were made, no sprite was
\* deleted twice, every live sprite is the value of exactly one pool entry,
\* every sprite the last call removed from the pool is deleted, and no
\* deleted sprite is in the pool
C4_TileOwnership ==
    /\ ~deleted_twice
    /\ live = Pooled(sprites)
    /\ effect.dropped = {}
    /\ effect.deleted \cap Pooled(sprites) = {}
    /\ \A i \in DOMAIN sprites : \A c1, c2 \in DOMAIN sprites[i] :
          (c1 # c2 /\ sprites[i][c1] # None)
              => sprites[i][c1].id # sprites[i][c2].id

\* a call that deleted a sprite while two others stay pooled
C4_Witness ==
    /\ last.op = "TileLayer.set_viewport"
    /\ effect.deleted # {}
    /\ Cardinality(live) >= 2

\* C5 as stated: whatever ObjectGroup.set_viewport calls were made, every
\* sprite the group created is in the pool or deleted: none is live and
\* unreferenced, none was overwritten in the pool without being deleted
C5_ObjectOwnership ==
    /\ ~deleted_twice
    /\ live = Pooled(sprites)
    /\ effect.dropped = {}

\* C6 as stated: no set_viewport call ends with an exception, whatever
\* gids the objects it sees or evicts have
C6_NoCallFails == last.error = ""

\* C7 as stated: an ObjectGroup.set_viewport with the arguments of the
\* call before it creates no sprite and deletes none
C7_ObjectIdempotent ==
    (last.op = "ObjectGroup.set_viewport" /\ effect.repeat)
        => (effect.created = {} /\ effect.deleted = {})

\* C8: after Map.set_viewport(x, y, w, h) with w <= p_width, h <= p_height
\* the stored position is x below 0 raised to 0, x above p_width - w
\* lowered to p_width - w, any other x itself; the same for y
C8_ClampResult ==
    ( /\ last.op = "Map.set_viewport"
      /\ last.w <= p_width
      /\ last.h <= p_height )
    => /\ map_x = ( IF last.x < 0 THEN 0
                    ELSE IF last.x > p_width - last.w
                         THEN p_width - last.w
                         ELSE last.x )
       /\ map_y = ( IF last.y < 0 THEN 0
                    ELSE IF last.y > p_height - last.h
                         THEN p_height - last.h
                         ELSE last.y )
       /\ map_w = last.w
       /\ map_h = last.h

\* a request left of the world and one past its far edge, both clamped
C8_Witness ==
    /\ last.op = "Map.set_viewport"
    /\ last.w <= p_width /\ last.h <= p_height
    /\ last.y < 0 /\ map_y = 0
    /\ last.x > p_width - last.w /\ map_x = p_width - last.w

\* C9 as stated: the stored viewport always satisfies
\* 0 <= x <= p_width - w and 0 <= y <= p_height - h
C9_InsideWorld ==
    /\ 0 <= map_x /\ map_x <= p_width - map_w
    /\ 0 <= map_y /\ map_y <= p_height - map_h

\* C9 amended: the stored viewport never passes the far edge; it starts at
\* 0 or more when it is no larger than the world, and lies at the negative
\* position p_width - w (p_height - h) when it is larger
C9_InsideWorldWhenFits ==
    /\ map_x <= p_width - map_w
    /\ map_y <= p_height - map_h
    /\ map_w <= p_width => 0 <= map_x
    /\ map_h <= p_height => 0 <= map_y
    /\ map_w > p_width => map_x = p_width - map_w
    /\ map_h > p_height => map_y = p_height - map_h

\* a set_focus past the far edge that moved the viewport onto the edge
C9_Witness ==
    /\ last.op = "Map.set_focus"
    /\ ~last.noop
    /\ map_fx # <<>>
    /\ map_fx[1] > p_width
    /\ map_x = p_width - map_w
    /\ map_x > 0

\* the texture Map.get_texture is to return for gid: that of the tileset
\* whose gids include it, at the local row counted from the last row
ExpectedTexture(gid) ==
    LET T == { t \in DOMAIN tilesets :
                 /\ gid >= tilesets[t].data.firstgid
                 /\ gid < tilesets[t].data.firstgid
                              + tilesets[t].columns * tilesets[t].rows }
    IN  IF T = {} THEN Raise("KeyError")
        ELSE LET ts == tilesets[CHOOSE t \in T : TRUE]
                 l == gid - ts.data.firstgid
             IN  Ok(<<ts.data.name, ts.rows - 1 - (l \div ts.columns),
                      l % ts.columns>>)

\* C10: for every tileset and local (row, col), get_texture of
\* firstgid + col + row*columns is the slicer texture at row rows-1-row,
\* column col; different gids have different textures; and every lookup
\* made returned that texture
C10_GidIndex ==
    /\ \A t \in DOMAIN tilesets :
          \A row \in 0 .. (tilesets[t].rows - 1),
             col \in 0 .. (tilesets[t].columns - 1) :
              get_texture(tilesets[t].data.firstgid + col
                            + row * tilesets[t].columns)
                = Ok(<<tilesets[t].data.name,
                       tilesets[t].rows - 1 - row, col>>)
    /\ \A g1, g2 \in DOMAIN texture_index :
          g1 # g2 => texture_index[g1] # texture_index[g2]
    /\ last.op = "Map.get_texture" => ret = ExpectedTexture(last.x)

\* a lookup of a gid of local row 0 in an atlas of two or more rows, which
\* returned the texture of the last slicer row
C10_Witness ==
    /\ last.op = "Map.get_texture"
    /\ ret.ok
    /\ \E t \in DOMAIN tilesets :
          /\ tilesets[t].rows >= 2
          /\ tilesets[t].columns >= 2
          /\ last.x = tilesets[t].data.firstgid + 1
          /\ ret.value = <<tilesets[t].data.name, tilesets[t].rows - 1, 1>>

\* C11: calculate_columns(image_len, tile_len, margin, spacing) returns 0
\* when image_len - 2*margin < tile_len; otherwise it returns the c >= 1
\* with c*tile_len + spacing*(c-1) = image_len - 2*margin when there is
\* one, and fails with the assertion exactly when there is none
C11_Slicing ==
    last.op = "calculate_columns" =>
        LET inner == last.x - 2 * last.w
            fits == { c \in 1 .. (MaxImage + 1) :
                        c * last.y + last.h * (c - 1) = inner }
        IN  IF inner < last.y THEN ret = Ok(0)
            ELSE IF fits # {} THEN ret.ok /\ ret.value \in fits
            ELSE ret = Raise("AssertionError")

\* an image with a margin that two or more spaced tiles fill exactly
C11_Witness ==
    /\ last.op = "calculate_columns"
    /\ last.w > 0 /\ last.h > 0
    /\ ret.ok /\ ret.value >= 2

\* C12 as stated: in every constructed Map the layer names are distinct and
\* every layer of `layers` is the one `tilelayers` or `objectgroups` holds
\* under its name
C12_LayerNamesDistinct ==
    /\ \A i, j \in DOMAIN layers :
          i # j => layers[i].name # layers[j].name
    /\ \A i \in DOMAIN layers :
          \/ /\ layers[i].name \in DOMAIN tilelayers
             /\ tilelayers[layers[i].name] = i
          \/ /\ layers[i].name \in DOMAIN objectgroups
             /\ objectgroups[layers[i].name] = i

\* C13 as stated: (x, y) in layer is true exactly when the flat index
\* x + y*width addresses an element of the tile data
C13_Membership ==
    last.op = "TileLayer.__contains__" =>
        LET idx == last.x + last.y * mapdata.width
        IN  ret = Ok(0 <= idx /\ idx < mapdata.width * mapdata.height)

\* C14 as stated: layer[(x, y)] returns the gid at flat index x + y*width
\* when the index is in [0, width*height) and reports an error for every
\* other index
C14_Lookup ==
    last.op = "TileLayer.__getitem__" =>
        LET idx == last.x + last.y * mapdata.width
        IN  IF 0 <= idx /\ idx < mapdata.width * mapdata.height
            THEN ret = Ok(layers[last.layer].data[idx + 1])
            ELSE ~ret.ok

\* the objects of the input list objs at the positions I, in input order
InInputOrder(objs, I, r) ==
    /\ Len(r) = Cardinality(I)
    /\ \A k \in 1 .. Len(r) :
          r[k] = objs[CHOOSE i \in I : Cardinality({ j \in I : j < i }) = k - 1]

\* C15: in every state, also after set_viewport calls, the by-name and the
\* by-type index of an object group hold for every name (type) exactly the
\* objects of the input list that carry it, in input order, and a lookup
\* by name or by type returns that list
C15_ObjectIndices ==
    \A li \in DOMAIN layers :
        layers[li].type = "objectgroup" =>
            LET input == layers[li].data_objects
                Named(n) == { i \in DOMAIN input : input[i].name = n }
                Typed(t) == { i \in DOMAIN input : input[i].type = t }
            IN  /\ \A n \in ObjectNames :
                      IF Named(n) = {} THEN n \notin DOMAIN layers[li]._index
                      ELSE /\ n \in DOMAIN layers[li]._index
                           /\ InInputOrder(input, Named(n),
                                           layers[li]._index[n])
                /\ \A t \in ObjectTypes :
                      IF Typed(t) = {}
                      THEN t \notin DOMAIN layers[li]._index_type
                      ELSE /\ t \in DOMAIN layers[li]._index_type
                           /\ InInputOrder(input, Typed(t),
                                           layers[li]._index_type[t])
                /\ (last.op = "ObjectGroup.__getitem__(name)"
                        /\ last.layer = li) =>
                      IF Named(last.key) = {} THEN ret = Raise("KeyError")
                      ELSE ret.ok /\ InInputOrder(input, Named(last.key),
                                                  ret.value)
                /\ (last.op = "ObjectGroup.get_by_type"
                        /\ last.layer = li) =>
                      IF Typed(last.key) = {} THEN ret = Raise("KeyError")
                      ELSE ret.ok /\ InInputOrder(input, Typed(last.key),
                                                  ret.value)

\* after set_viewport calls left a sprite in the pool, a lookup by name
\* returned two objects, the first of them not the one the sorted master
\* list has first
C15_Witness ==
    /\ last.op = "ObjectGroup.__getitem__(name)"
    /\ live # {}
    /\ ret.ok
    /\ Len(ret.value) = 2
    /\ ret.value[1] # layers[last.layer].objects[1]
    /\ ret.value[2] = layers[last.layer].objects[1]

\* C16: group[(cx, cy)] returns the first object of the input list whose
\* tile coordinate (x div tilewidth, y div tileheight - 1) is (cx, cy) and
\* fails with KeyError when there is none; (cx, cy) in group is true
\* exactly when there is one
C16_CoordinateLookup ==
    ( /\ last.op \in { "ObjectGroup.__getitem__(tuple)",
                       "ObjectGroup.__contains__(tuple)" } )
    => LET input == layers[last.layer].data_objects
           At == { i \in DOMAIN input :
                     /\ input[i].x \div mapdata.tilewidth = last.x
                     /\ (input[i].y \div mapdata.tileheight) - 1 = last.y }
       IN  IF last.op = "ObjectGroup.__contains__(tuple)"
           THEN ret = Ok(At # {})
           ELSE IF At = {} THEN ret = Raise("KeyError")
           ELSE ret = Ok(input[CHOOSE i \in At : \A j \in At : i <= j])

\* a lookup of a coordinate two objects share returned the one that is
\* first in the input, though the sorted master list has the other first
C16_Witness ==
    /\ last.op = "ObjectGroup.__getitem__(tuple)"
    /\ ret.ok
    /\ \E i, j \in DOMAIN layers[last.layer].objects :
          /\ i < j
          /\ layers[last.layer].objects[j] = ret.value
          /\ ObjectCoordinate(layers[last.layer].objects[i], mapdata)
                = <<last.x, last.y>>

\* C17 as stated: after any ObjectGroup.set_viewport(x, y, w, h) the keys
\* of the pool are exactly the positions of the objects that are visible,
\* have a nonzero gid and lie strictly inside the viewport grown by one
\* tile on each side
C17_ObjectVisibility ==
    last.op = "ObjectGroup.set_viewport" =>
        LET objs == layers[last.layer].data_objects
            tw == mapdata.tilewidth
            th == mapdata.tileheight
            shown == { i \in DOMAIN objs :
                         /\ objs[i].visible
                         /\ objs[i].hasgid /\ objs[i].gid # 0
                         /\ last.x - tw < objs[i].x
                         /\ objs[i].x < last.x + last.w + tw
                         /\ last.y - th < objs[i].y
                         /\ objs[i].y < last.y + last.h + th }
        IN  DOMAIN sprites[last.layer]
                = { <<objs[i].x, objs[i].y>> : i \in shown }

\* C18: a Map.set_focus(fx, fy) with a focus other than the stored one
\* stores the focus and leaves the viewport, the pools and the batch as
\* Map.set_viewport(fx - w div 2, fy - h div 2, w, h) leaves them from the
\* same state
C18_FocusCentring ==
    [][ ( /\ last'.op = "Map.set_focus"
          /\ <<map_fx', map_fy'>> # <<map_fx, map_fy>> )
        => LET x == map_fx'[1] - (map_w \div 2)
               y == map_fy'[1] - (map_h \div 2)
               vx == Min(Max(x, 0), p_width - map_w)
               vy == Min(Max(y, 0), p_height - map_h)
           IN  /\ map_fx' # <<>> /\ map_fy' # <<>>
               /\ IF <<vx, vy>> = <<map_x, map_y>>
                  THEN UNCHANGED <<map_x, map_y, map_w, map_h, sprites,
                                   live, deleted_twice>>
                  ELSE \E r \in RunLayers(1,
                            [ sprites |-> sprites, created |-> {},
                              deleted |-> {}, dropped |-> {}, lookups |-> 0,
                              calls |-> <<>>, error |-> "" ],
                            vx, vy, map_w, map_h) :
                          /\ <<map_x', map_y', map_w', map_h'>>
                                = <<vx, vy, map_w, map_h>>
                          /\ sprites' = r.sprites
                          /\ live' = (live \cup r.created) \ r.deleted ]_vars

\* a set_focus inside the world left the viewport centred on the focus,
\* away from the world's edges, with sprites on screen
C18_Witness ==
    /\ last.op = "Map.set_focus"
    /\ ~last.noop
    /\ map_w >= 2
    /\ map_x = map_fx[1] - (map_w \div 2)
    /\ map_x > 0 /\ map_x < p_width - map_w
    /\ live # {}

C20_GroupAllocation ==
    /\ \A i, j \in DOMAIN layers :
          (i < j /\ layers[i].visible /\ layers[j].visible)
              => layers[i].group < layers[j].group
    /\ \A i \in DOMAIN layers :
          IF layers[i].visible
          THEN 0 <= layers[i].group /\ layers[i].group < last_group + 1
          ELSE layers[i].group = 0 - 1

\* a Map of two visible layers whose groups start above 0, with another
\* Map constructed after it
C20_Witness ==
    /\ last.op = "Map"
    /\ Len(layers) = 2
    /\ layers[1].visible /\ layers[2].visible
    /\ layers[1].group > 0
    /\ last_group > layers[2].group

\* C21 as stated: after MapRenderer.load, shadow_casters has the key
\* (x, height-1-row) exactly when some layer places at flat index
\* row*width + x a gid whose tile has a nonzero wall, its value is the wall
\* of the last such layer, and collision_gids is the key set of
\* collision_tiles
C21_ShadowCasters ==
    last.op = "MapRenderer.load" =>
        LET tmxfile == last.tmxfile
            tileset == tmxfile.tilesets[1]
            Wall(gid) ==
                LET T == { k \in DOMAIN tileset.tiles :
                             tileset.firstgid + tileset.tiles[k].id = gid }
                IN  IF T = {} THEN 0
                    ELSE tileset.tiles[CHOOSE k \in T : TRUE].wall
            Casting(x, row) ==
                { l \in DOMAIN tmxfile.layers :
                    Wall(tmxfile.layers[l][row * tmxfile.width + x + 1]) # 0 }
        IN  /\ renderer.collision_gids = DOMAIN renderer.collision_tiles
            /\ \A x \in 0 .. (tmxfile.width - 1),
                  row \in 0 .. (tmxfile.height - 1) :
                  LET c == <<x, tmxfile.height - 1 - row>>
                      L == Casting(x, row)
                  IN  IF L = {} THEN c \notin DOMAIN renderer.shadow_casters
                      ELSE /\ c \in DOMAIN renderer.shadow_casters
                           /\ renderer.shadow_casters[c] =
                                 Wall(tmxfile.layers
                                        [CHOOSE l \in L : \A m \in L : m <= l]
                                        [row * tmxfile.width + x + 1])
            /\ \A c \in DOMAIN renderer.shadow_casters :
                  /\ c[1] \in 0 .. (tmxfile.width - 1)
                  /\ c[2] \in 0 .. (tmxfile.height - 1)

\* the rectangle of tile c meets the closed rectangle [x0, x1] x [y0, y1]
TileMeetsClosed(c, x0, x1, y0, y1) ==
    /\ c[1] * mapdata.tilewidth <= x1
    /\ (c[1] + 1) * mapdata.tilewidth > x0
    /\ c[2] * mapdata.tileheight <= y1
    /\ (c[2] + 1) * mapdata.tileheight > y0

\* C22: after TileLayer.set_viewport(x, y, w, h) with w, h >= 0 the pool
\* has an entry for every tile whose rectangle meets the viewport itself,
\* [x, x+w] x [y, y+h], whether or not x and y are multiples of the tile
\* size
C22_NoVisibleHole ==
    (last.op = "TileLayer.set_viewport" /\ last.w >= 0 /\ last.h >= 0) =>
        \A c \in NearTiles :
            TileMeetsClosed(c, last.x, last.x + last.w,
                               last.y, last.y + last.h)
                => c \in DOMAIN sprites[last.layer]

\* a viewport off the tile grid that lies across two tile columns and two
\* tile rows, all four tiles pooled
C22_Witness ==
    /\ last.op = "TileLayer.set_viewport"
    /\ last.x % mapdata.tilewidth # 0
    /\ last.y % mapdata.tileheight # 0
    /\ Cardinality({ c \in DOMAIN sprites[last.layer] :
                        TileMeetsClosed(c, last.x, last.x + last.w,
                                           last.y, last.y + last.h) }) >= 4

\* C23: TileLayer.set_viewport looks a gid up, and creates a primitive, only
\* for coordinates that had no pool entry before the call; an entry that is
\* visible before and after the call, the None placeholder included, is kept
\* as it is; a second call with the arguments of the call before it creates
\* nothing, deletes nothing and looks nothing up
C23_MissCaching ==
    [][ last'.op = "TileLayer.set_viewport" =>
          LET old == sprites[last'.layer]
              new == sprites'[last'.layer]
              fresh == effect'.in_use \ DOMAIN old
          IN  /\ effect'.lookups = Cardinality(fresh)
              /\ effect'.created =
                    { new[c].id : c \in { f \in fresh : new[f] # None } }
              /\ \A c \in effect'.in_use \cap DOMAIN old : new[c] = old[c]
              /\ effect'.repeat =>
                    /\ effect'.created = {}
                    /\ effect'.deleted = {}
                    /\ effect'.lookups = 0 ]_vars

\* a call repeated with the same arguments while the pool holds both a
\* primitive and a None placeholder
C23_Witness ==
    /\ last.op = "TileLayer.set_viewport"
    /\ effect.repeat
    /\ \E c, d \in DOMAIN sprites[last.layer] :
          /\ sprites[last.layer][c] = None
          /\ sprites[last.layer][d] # None

\* the tile coordinate c is one of the map grid
InsideGrid(c) ==
    /\ 0 <= c[1] /\ c[1] < mapdata.width
    /\ 0 <= c[2] /\ c[2] < mapdata.height

\* C24: after Map.set_viewport, in every tile layer a pool entry of a
\* coordinate outside the map grid is the None placeholder, and a pool entry
\* that holds a primitive is of a coordinate (px, py) inside the grid and
\* has the texture of the gid stored at row py, column px of the layer
C24_OverscanOutsideGrid ==
    (last.op = "Map.set_viewport" /\ last.error = "") =>
        \A li \in DOMAIN layers :
            layers[li].type = "tilelayer" =>
                \A c \in DOMAIN sprites[li] :
                    /\ ~InsideGrid(c) => sprites[li][c] = None
                    /\ sprites[li][c] # None =>
                          /\ InsideGrid(c)
                          /\ Ok(sprites[li][c].texture) = get_texture(
                                layers[li].data[c[1] + c[2] * mapdata.width + 1])

\* C25: after any sequence of TileLayer.set_viewport calls every primitive
\* of the pool, at coordinate (px, py), is at (px*tw, h - py*th - th) for
\* the h of the most recent call
C25_VerticalFlip ==
    last.op = "TileLayer.set_viewport" =>
        \A c \in DOMAIN sprites[last.layer] :
            LET sp == sprites[last.layer][c]
            IN  sp # None =>
                  /\ sp.x = c[1] * mapdata.tilewidth
                  /\ sp.y = last.h - (c[2] * mapdata.tileheight)
                                   - mapdata.tileheight

\* C26: right after a Map.set_focus(fx, fy) call, whatever calls came
\* before it, the stored viewport is the one centred on (fx, fy) and
\* clamped to the world, at the stored viewport size
C26_FocusHonoured ==
    (last.op = "Map.set_focus" /\ last.error = "") =>
        /\ map_fx # <<>> /\ map_fy # <<>>
        /\ map_x = Min(Max(map_fx[1] - (map_w \div 2), 0), p_width - map_w)
        /\ map_y = Min(Max(map_fy[1] - (map_h \div 2), 0), p_height - map_h)

\* the sum of the movement vectors of the keys of K
RECURSIVE SumOfVectors(_)
SumOfVectors(K) ==
    IF K = {} THEN <<0, 0>>
    ELSE LET k == CHOOSE k \in K : TRUE
         IN  VAdd(movement_vectors(k), SumOfVectors(K \ {k}))

\* C27: whatever keys were pressed and released, Player.desired_speed is
\* the sum of the movement vectors of the keys of movement_keys, no key is
\* in movement_keys together with its opposite, and with no key held down
\* desired_speed is zero
C27_KeyState ==
    /\ player.desired_speed = SumOfVectors(player.movement_keys)
    /\ \A k \in player.movement_keys :
          movement_opposites(k) \notin player.movement_keys
    /\ keys_down = {} => player.desired_speed = <<0, 0>>

\* the point v is one of the level, and index is that of the tile under it
TileUnder(v, index) ==
    LET col == v[1] \div (mapdata.tilewidth * Scale)
        row == v[2] \div (mapdata.tileheight * Scale)
    IN  /\ 0 <= col /\ col < mapdata.width
        /\ 0 <= row /\ row < mapdata.height
        /\ index = row * mapdata.width + col

\* C28: every collision_tile_at call of Player.on_update passes the
\* assertion of position_to_tile_index and reads the tile under the point
\* asked about: no failure past the bottom or right edge, no index counted
\* from the end of the list past the top or left edge
C28_CollisionQueryInRange ==
    \A i \in DOMAIN queries :
        /\ queries[i].index.ok
        /\ queries[i].gid.ok
        /\ TileUnder(queries[i].tile_position, queries[i].index.value)

====
